---- MODULE Spec2Model ----
(***************************************************************************)
(* Model of AdGen: the App component's generation state (src/App.tsx), the *)
(* three generation handlers with their suspension points, the media       *)
(* services they await (src/services/geminiService.ts), the buttons that   *)
(* trigger them (src/components/ScriptPreview.tsx,                         *)
(* src/components/ImageStudio.tsx), the script preview with its Markdown   *)
(* extractor and prompt builder (ScriptPreview.tsx), and the chat with its *)
(* streamed replies (App.tsx, geminiService.ts).                           *)
(*                                                                         *)
(* Each part is explored by its own specification over the same           *)
(* variables: Spec and FairSpec (generation, the latter with collaborators *)
(* that settle), ParseSpec (the preview following a growing reply),        *)
(* PreviewSpec (edits and prompt construction), ChatSpec (the              *)
(* conversation), FollowSpec (the preview following the conversation) and  *)
(* RefImageSpec (the reference image of the preview).                      *)
(*                                                                         *)
(* One action is one run of JavaScript between two suspension points: the  *)
(* state updates a handler makes before its next await are committed       *)
(* together (React batches them into one render).                          *)
(***************************************************************************)
EXTENDS Integers, Sequences, FiniteSets, TLC

(* Bound: number of handler invocations (button clicks that start a        *)
(* request) in one behaviour.                                              *)
MaxCalls == 2

(* null; stored values are tuples of text so that TLC can compare them      *)
Null == <<>>
NoOperation == "no-operation"
NoError == "no-error"
NoResult == <<>>

GenerationStatus ==
    {"idle", "checking-auth", "generating", "polling", "completed", "error"}

Kinds == {"video", "image", "edit"}

(* Messages a rejected SDK call or a terminal operation error can carry:   *)
(* the service's "entity not found" rejection, any other text, and no text.*)
NotFoundText == "Requested entity was not found."
OtherText == "503 model overloaded"
EmptyText == ""
RemoteMessages == {NotFoundText, OtherText, EmptyText}

VARIABLES
    generationStatus,    \* App state: generationStatus
    videoUrl,            \* App state: videoUrl
    generatedImageUrl,   \* App state: generatedImageUrl
    errorMsg,            \* App state: errorMsg
    activeStudio,        \* App state: activeStudio
    calls,               \* the handler invocations so far, in call order
    statusTrail,         \* statuses assigned since the last 'generating'
    markdown,            \* ScriptPreview prop: markdown (a text)
    chunks,              \* number of pieces of text the markdown has grown by
    editableScript,      \* ScriptPreview state: editableScript
    isEdited,            \* ScriptPreview state: isEdited
    prompt,              \* the prompt last passed to onGenerateVideo
    useRefImage,         \* ScriptPreview state: useRefImage
    refImageData,        \* ScriptPreview state: refImageData
    imageToUse,          \* the refImage last passed to onGenerateVideo
    messages,            \* App state: messages
    input,               \* App state: input
    selectedMedia,       \* App state: selectedMedia
    isTyping,            \* App state: isTyping
    chatSession,         \* geminiService module state: chatSession is set
    send                 \* the running handleSendMessage invocation

generationVars == <<generationStatus, videoUrl, generatedImageUrl, errorMsg,
                    activeStudio, calls, statusTrail>>

refImageVars == <<useRefImage, refImageData, imageToUse>>

previewVars ==
    <<markdown, chunks, editableScript, isEdited, prompt, refImageVars>>

chatVars == <<messages, input, selectedMedia, isTyping, chatSession, send>>

vars == <<generationVars, previewVars, chatVars>>

(***************************************************************************)
(* Services (geminiService.ts)                                             *)
(***************************************************************************)

(* error.message && error.message.includes("Requested entity was not found") *)
IsEntityNotFound(m) == m = NotFoundText

(* variant of VeoRethrow that rethrows every error as it is                 *)
VeoRethrow_Raw(m) == m

(* catch block of generateVeoVideo: the message of the error it rethrows   *)
VeoRethrow(m) == IF IsEntityNotFound(m) THEN "AUTH_REQUIRED" ELSE m

(* catch block of generateImage                                            *)
ImageRethrow(m) == IF IsEntityNotFound(m) THEN "AUTH_REQUIRED" ELSE m

(* catch block of editImage: rethrows the error as it is                   *)
EditRethrow(m) == m

(* operation.error.message || "Video generation failed"                    *)
OperationErrorText(m) == IF m = EmptyText THEN "Video generation failed" ELSE m

(* `${videoUri}&key=${process.env.API_KEY}` for the job of call i          *)
VeoUrl(i) == <<"veo-uri", i, "&key=", "API_KEY">>

(* `data:image/png;base64,${part.inlineData.data}` for the job of call i   *)
ImageDataUrl(i) == <<"data:image/png;base64,", i>>

(* An operation object returned by generateVideos / getVideosOperation     *)
Operations ==
    [done : BOOLEAN, error : RemoteMessages \cup {NoError}, uri : BOOLEAN]

(***************************************************************************)
(* setGenerationStatus                                                     *)
(***************************************************************************)
SetStatus(s) ==
    /\ generationStatus' = s
    /\ statusTrail' = IF s = "generating" THEN {s} ELSE statusTrail \cup {s}

TypeOK ==
    /\ generationStatus \in GenerationStatus
    /\ activeStudio \in {"video", "image"}
    /\ Len(calls) <= MaxCalls
    /\ statusTrail \subseteq GenerationStatus

GenerationInit ==
    /\ generationStatus = "idle"
    /\ videoUrl = Null
    /\ generatedImageUrl = Null
    /\ errorMsg = Null
    /\ activeStudio = "video"
    /\ calls = <<>>
    /\ statusTrail = {}

(***************************************************************************)
(* Buttons (ScriptPreview.tsx, ImageStudio.tsx)                            *)
(***************************************************************************)

(* variant of ScriptPreviewIsBusy that forgets the 'generating' status      *)
ScriptPreviewIsBusy_NotGenerating(status) ==
    status = "polling" \/ status = "checking-auth"

(* ScriptPreview: disabled={isBusy} on the Generate Video button           *)
ScriptPreviewIsBusy(status) ==
    status = "generating" \/ status = "polling" \/ status = "checking-auth"

(* variant of ImageStudioIsBusy that forgets the 'checking-auth' status     *)
ImageStudioIsBusy_NotCheckingAuth(status) ==
    status = "generating"

(* ImageStudio: disabled={isBusy || ...} on Generate Image and Edit Image  *)
ImageStudioIsBusy(status) ==
    status = "generating" \/ status = "checking-auth"

(***************************************************************************)
(* Handler invocations                                                     *)
(***************************************************************************)
NewCall(kind, pc, hasKey) ==
    [kind |-> kind, pc |-> pc, hasKey |-> hasKey,
     operation |-> NoOperation, err |-> NoError, result |-> NoResult]

CallIds == 1..Len(calls)

At(i, pc) == i \in CallIds /\ calls[i].pc = pc

(* The handler of call i returns: its local variables are gone             *)
Return(c) == [c EXCEPT !.pc = "returned", !.operation = NoOperation]

(* variant of EnsureAuthBegin that starts the job without any auth check    *)
EnsureAuthBegin_SkipsCheck(kind) ==
    /\ SetStatus("generating")
    /\ calls' = Append(calls, NewCall(kind, "submit", "not-checked"))
    /\ UNCHANGED <<videoUrl, generatedImageUrl, errorMsg, activeStudio>>

(* ensureAuth up to its first await (App.tsx 129-132)                      *)
EnsureAuthBegin(kind) ==
    /\ errorMsg' = Null
    /\ SetStatus("checking-auth")
    /\ calls' = Append(calls, NewCall(kind, "checkAuth", "pending"))
    /\ UNCHANGED <<videoUrl, generatedImageUrl, activeStudio>>

(* click on Generate Video: handleGenerate -> handleGenerateVideo          *)
ClickGenerateVideo ==
    /\ activeStudio = "video"
    /\ Len(calls) < MaxCalls
    /\ IF ScriptPreviewIsBusy(generationStatus)
       THEN UNCHANGED vars
       ELSE EnsureAuthBegin("video")

(* click on Generate Image: handleGenerateClick -> handleGenerateImage     *)
ClickGenerateImage ==
    /\ activeStudio = "image"
    /\ Len(calls) < MaxCalls
    /\ IF ImageStudioIsBusy(generationStatus)
       THEN UNCHANGED vars
       ELSE EnsureAuthBegin("image")

(* handleEditImage up to its first await (App.tsx 208-212)                 *)
EditImageBegin ==
    /\ SetStatus("generating")
    /\ generatedImageUrl' = Null
    /\ calls' = Append(calls, NewCall("edit", "submit", "not-checked"))
    /\ UNCHANGED <<videoUrl, errorMsg, activeStudio>>

(* click on Edit Image: handleEditClick -> handleEditImage                 *)
ClickEditImage ==
    /\ activeStudio = "image"
    /\ Len(calls) < MaxCalls
    /\ IF ImageStudioIsBusy(generationStatus)
       THEN UNCHANGED vars
       ELSE EditImageBegin

(* variant of EnsureAuthReturns that lets a denied request through          *)
EnsureAuthReturns_DeniedProceeds(hasKey) ==
    CASE hasKey = "yes" -> TRUE
      [] hasKey = "no" -> TRUE
      [] hasKey = "threw" -> FALSE

(* What ensureAuth returns for each outcome of checkPaidKeyAuth            *)
(* (App.tsx 133-145): true when a key is selected, false when none is,     *)
(* false from the catch block when the check throws.                       *)
EnsureAuthReturns(hasKey) ==
    CASE hasKey = "yes" -> TRUE
      [] hasKey = "no" -> FALSE
      [] hasKey = "threw" -> FALSE

(* The handler after ensureAuth returned true, up to the submit await      *)
(* (App.tsx 152-156 for video, 181-185 for image)                          *)
BeginGenerating(i, hasKey) ==
    /\ SetStatus("generating")
    /\ IF calls[i].kind = "video"
       THEN videoUrl' = Null /\ UNCHANGED generatedImageUrl
       ELSE generatedImageUrl' = Null /\ UNCHANGED videoUrl
    /\ calls' = [calls EXCEPT ![i].pc = "submit", ![i].hasKey = hasKey]
    /\ UNCHANGED <<errorMsg, activeStudio>>

(* checkPaidKeyAuth resolves with hasKey; window.confirm answers confirm   *)
AuthCheckResolves(i, hasKey, confirm) ==
    /\ At(i, "checkAuth")
    /\ IF EnsureAuthReturns(hasKey)
       THEN BeginGenerating(i, hasKey)
       ELSE /\ SetStatus("idle")
            /\ calls' = [calls EXCEPT
                 ![i] = IF confirm
                        THEN [@ EXCEPT !.pc = "promptAuth", !.hasKey = hasKey]
                        ELSE Return([@ EXCEPT !.hasKey = hasKey])]
            /\ UNCHANGED <<videoUrl, generatedImageUrl, errorMsg, activeStudio>>

(* checkPaidKeyAuth rejects: the catch block of ensureAuth                 *)
AuthCheckRejects(i) ==
    /\ At(i, "checkAuth")
    /\ IF EnsureAuthReturns("threw")
       THEN BeginGenerating(i, "threw")
       ELSE /\ calls' = [calls EXCEPT ![i] = Return([@ EXCEPT !.hasKey = "threw"])]
            /\ UNCHANGED <<generationStatus, statusTrail, videoUrl,
                           generatedImageUrl, errorMsg, activeStudio>>

(* promptPaidKeyAuth inside ensureAuth resolves or rejects: ensureAuth     *)
(* returns false either way (line 139, or the catch at 144)                *)
PromptAuthSettles(i) ==
    /\ At(i, "promptAuth")
    /\ calls' = [calls EXCEPT ![i] = Return(@)]
    /\ UNCHANGED <<generationStatus, statusTrail, videoUrl,
                   generatedImageUrl, errorMsg, activeStudio>>

(***************************************************************************)
(* The handlers' completion and catch blocks (App.tsx 163-174, 186-197,    *)
(* 213-219)                                                                *)
(***************************************************************************)
AuthFailedText == "Authentication failed. Please select a valid API Key."

FailurePrefix(kind) ==
    CASE kind = "video" -> "Video generation failed. "
      [] kind = "image" -> "Image generation failed. "
      [] kind = "edit" -> "Image editing failed. "

(* the message the catch block stores for an error with message m          *)
ErrorMsgFor(kind, m) ==
    IF kind # "edit" /\ m = "AUTH_REQUIRED"
    THEN <<AuthFailedText>>
    ELSE <<FailurePrefix(kind), m>>

(* the catch block awaits promptPaidKeyAuth (App.tsx 170, 193)             *)
CatchPrompts(kind, m) == kind # "edit" /\ m = "AUTH_REQUIRED"

(* variant of Complete that sets 'completed' without storing the result    *)
Complete_StatusOnly(i, url) ==
    /\ SetStatus("completed")
    /\ calls' = [calls EXCEPT ![i] = Return([@ EXCEPT !.result = url])]
    /\ UNCHANGED <<videoUrl, generatedImageUrl, errorMsg, activeStudio>>

(* the service call of call i returned url: set the result, 'completed'    *)
Complete(i, url) ==
    /\ IF calls[i].kind = "video"
       THEN videoUrl' = url /\ UNCHANGED generatedImageUrl
       ELSE generatedImageUrl' = url /\ UNCHANGED videoUrl
    /\ SetStatus("completed")
    /\ calls' = [calls EXCEPT ![i] = Return([@ EXCEPT !.result = url])]
    /\ UNCHANGED <<errorMsg, activeStudio>>

(* variant of Fail that sets 'error' without storing a message              *)
Fail_NoMessage(i, m) ==
    /\ SetStatus("error")
    /\ calls' = [calls EXCEPT
         ![i] = IF CatchPrompts(calls[i].kind, m)
                THEN [@ EXCEPT !.pc = "promptRetry", !.err = m,
                               !.operation = NoOperation]
                ELSE Return([@ EXCEPT !.err = m])]
    /\ UNCHANGED <<videoUrl, generatedImageUrl, errorMsg, activeStudio>>

(* the service call of call i threw an error with message m                *)
Fail(i, m) ==
    /\ SetStatus("error")
    /\ errorMsg' = ErrorMsgFor(calls[i].kind, m)
    /\ calls' = [calls EXCEPT
         ![i] = IF CatchPrompts(calls[i].kind, m)
                THEN [@ EXCEPT !.pc = "promptRetry", !.err = m,
                               !.operation = NoOperation]
                ELSE Return([@ EXCEPT !.err = m])]
    /\ UNCHANGED <<videoUrl, generatedImageUrl, activeStudio>>

(* promptPaidKeyAuth awaited in a catch block resolves or rejects          *)
PromptRetrySettles(i) ==
    /\ At(i, "promptRetry")
    /\ calls' = [calls EXCEPT ![i] = Return(@)]
    /\ UNCHANGED <<generationStatus, statusTrail, videoUrl,
                   generatedImageUrl, errorMsg, activeStudio>>

(***************************************************************************)
(* generateVeoVideo (geminiService.ts 185-248)                             *)
(***************************************************************************)

(* variant of VeoStep that returns the URL of a done operation that holds  *)
(* one, whether or not it carries an error                                 *)
VeoStep_UriBeforeError(i, op) ==
    IF ~op.done
    THEN /\ calls' = [calls EXCEPT ![i].pc = "sleep", ![i].operation = op]
         /\ UNCHANGED <<generationStatus, statusTrail, videoUrl,
                        generatedImageUrl, errorMsg, activeStudio>>
    ELSE IF op.uri
    THEN Complete(i, VeoUrl(i))
    ELSE IF op.error # NoError
    THEN Fail(i, VeoRethrow(OperationErrorText(op.error)))
    ELSE Fail(i, VeoRethrow("No video URI returned"))

(* lines 224-239 with the operation op in hand: poll again, throw, or      *)
(* return the URL                                                          *)
VeoStep(i, op) ==
    IF ~op.done
    THEN /\ calls' = [calls EXCEPT ![i].pc = "sleep", ![i].operation = op]
         /\ UNCHANGED <<generationStatus, statusTrail, videoUrl,
                        generatedImageUrl, errorMsg, activeStudio>>
    ELSE IF op.error # NoError
    THEN Fail(i, VeoRethrow(OperationErrorText(op.error)))
    ELSE IF ~op.uri
    THEN Fail(i, VeoRethrow("No video URI returned"))
    ELSE Complete(i, VeoUrl(i))

(* ai.models.generateVideos resolves with operation op                     *)
SubmitVideoResolves(i, op) ==
    /\ At(i, "submit") /\ calls[i].kind = "video"
    /\ VeoStep(i, op)

(* ai.models.generateVideos rejects with message m                         *)
SubmitVideoRejects(i, m) ==
    /\ At(i, "submit") /\ calls[i].kind = "video"
    /\ Fail(i, VeoRethrow(m))

(* the 5 s timer of the poll loop fires; getVideosOperation is called      *)
PollTimerFires(i) ==
    /\ At(i, "sleep")
    /\ calls' = [calls EXCEPT ![i].pc = "poll"]
    /\ UNCHANGED <<generationStatus, statusTrail, videoUrl,
                   generatedImageUrl, errorMsg, activeStudio>>

(* ai.operations.getVideosOperation resolves with operation op             *)
PollResolves(i, op) ==
    /\ At(i, "poll")
    /\ VeoStep(i, op)

(* ai.operations.getVideosOperation rejects with message m                 *)
PollRejects(i, m) ==
    /\ At(i, "poll")
    /\ Fail(i, VeoRethrow(m))

(***************************************************************************)
(* generateImage, editImage (geminiService.ts 107-180)                     *)
(***************************************************************************)
ImageRethrowFor(kind, m) ==
    IF kind = "image" THEN ImageRethrow(m) ELSE EditRethrow(m)

NoImageText(kind) ==
    IF kind = "image" THEN "No image data found in response"
    ELSE "No edited image data found in response"

(* ai.models.generateContent resolves; hasImage: a part carries inlineData *)
ImageResolves(i, hasImage) ==
    /\ At(i, "submit") /\ calls[i].kind \in {"image", "edit"}
    /\ IF hasImage
       THEN Complete(i, ImageDataUrl(i))
       ELSE Fail(i, ImageRethrowFor(calls[i].kind, NoImageText(calls[i].kind)))

(* ai.models.generateContent rejects with message m                        *)
ImageRejects(i, m) ==
    /\ At(i, "submit") /\ calls[i].kind \in {"image", "edit"}
    /\ Fail(i, ImageRethrowFor(calls[i].kind, m))

(***************************************************************************)
(* Other user actions (App.tsx)                                            *)
(***************************************************************************)

(* the Reset button, rendered in the video studio while status is 'error'  *)
(* (App.tsx 424-437): onClick={() => setGenerationStatus('idle')}          *)
ClickReset ==
    /\ activeStudio = "video"
    /\ generationStatus = "error"
    /\ SetStatus("idle")
    /\ UNCHANGED <<videoUrl, generatedImageUrl, errorMsg, activeStudio, calls>>

(* the studio toggle (App.tsx 343-358)                                     *)
SetActiveStudio(studio) ==
    /\ activeStudio' = studio
    /\ UNCHANGED <<generationStatus, statusTrail, videoUrl,
                   generatedImageUrl, errorMsg, calls>>

(* a step of the generation part leaves the preview and the chat alone     *)
GenerationOnly == UNCHANGED <<previewVars, chatVars>>

Next ==
    \/ ClickGenerateVideo
       /\ GenerationOnly
    \/ ClickGenerateImage
       /\ GenerationOnly
    \/ ClickEditImage
       /\ GenerationOnly
    \/ \E i \in CallIds, hasKey \in {"yes", "no"}, confirm \in BOOLEAN :
          AuthCheckResolves(i, hasKey, confirm)
          /\ GenerationOnly
    \/ \E i \in CallIds : AuthCheckRejects(i)
       /\ GenerationOnly
    \/ \E i \in CallIds : PromptAuthSettles(i)
       /\ GenerationOnly
    \/ \E i \in CallIds, op \in Operations : SubmitVideoResolves(i, op)
       /\ GenerationOnly
    \/ \E i \in CallIds, m \in RemoteMessages : SubmitVideoRejects(i, m)
       /\ GenerationOnly
    \/ \E i \in CallIds : PollTimerFires(i)
       /\ GenerationOnly
    \/ \E i \in CallIds, op \in Operations : PollResolves(i, op)
       /\ GenerationOnly
    \/ \E i \in CallIds, m \in RemoteMessages : PollRejects(i, m)
       /\ GenerationOnly
    \/ \E i \in CallIds, hasImage \in BOOLEAN : ImageResolves(i, hasImage)
       /\ GenerationOnly
    \/ \E i \in CallIds, m \in RemoteMessages : ImageRejects(i, m)
       /\ GenerationOnly
    \/ \E i \in CallIds : PromptRetrySettles(i)
       /\ GenerationOnly
    \/ ClickReset
       /\ GenerationOnly
    \/ \E studio \in {"video", "image"} : SetActiveStudio(studio)
       /\ GenerationOnly

(***************************************************************************)
(* Texts.  A text is a sequence of characters (one-character strings); a   *)
(* literal of the program that is never taken apart is a single element.   *)
(***************************************************************************)

(* Bound: number of pieces of text a reply grows by in ParseSpec           *)
MaxChunks == 3

(* line terminators of JavaScript regular expressions ("^", "$", ".")      *)
LineTerminators == {"\n", "\r"}

(* the characters "\s" and String.prototype.trim() treat as white space    *)
WhiteSpace == {" ", "\t", "\n", "\r"}

Min(S) == CHOOSE k \in S : \A j \in S : k <= j

Max(S) == CHOOSE k \in S : \A j \in S : j <= k

(* t.trim()                                                                *)
Trim(t) ==
    LET S == {k \in 1..Len(t) : t[k] \notin WhiteSpace}
    IN IF S = {} THEN <<>> ELSE SubSeq(t, Min(S), Max(S))

(* t.substring(start, end), with 0-based positions; the arguments are      *)
(* swapped when start > end                                                *)
Substring(t, start, end) ==
    IF start <= end THEN SubSeq(t, start + 1, end) ELSE SubSeq(t, end + 1, start)

(* md.replace(/\r\n/g, '\n'): drops each "\r" that a "\n" follows          *)
Normalize(md) ==
    IF \A i \in 1..Len(md) : md[i] # "\r" THEN md ELSE
    LET keep == {i \in 1..Len(md) :
                   ~(md[i] = "\r" /\ i < Len(md) /\ md[i + 1] = "\n")}
    IN [j \in 1..Cardinality(keep) |->
          md[CHOOSE i \in keep : Cardinality({k \in keep : k <= i}) = j]]

(* case folding of the "i" flag, for the letters of the patterns           *)
Fold(c) ==
    CASE c = "a" -> "A" [] c = "b" -> "B" [] c = "c" -> "C" [] c = "d" -> "D"
      [] c = "e" -> "E" [] c = "h" -> "H" [] c = "i" -> "I" [] c = "k" -> "K"
      [] c = "l" -> "L" [] c = "n" -> "N" [] c = "o" -> "O" [] c = "s" -> "S"
      [] c = "t" -> "T" [] c = "y" -> "Y" [] OTHER -> c

(* "^" with the "m" flag matches at position k (1-based)                   *)
AtLineStart(t, k) == k = 1 \/ t[k - 1] \in LineTerminators

(* ".*$" from position k: the position after the last character of the    *)
(* line that holds k                                                       *)
LineEnd(t, k) ==
    Min({e \in k..(Len(t) + 1) : e = Len(t) + 1 \/ t[e] \in LineTerminators})

(* "\s*" from position k, greedy: the first position that is not white     *)
(* space (line breaks are white space)                                     *)
SkipSpace(t, k) ==
    Min({j \in k..(Len(t) + 1) : j = Len(t) + 1 \/ t[j] \notin WhiteSpace})

(* the literal w occurs at position k, letter case ignored                 *)
WordAt(t, k, w) ==
    /\ k + Len(w) - 1 <= Len(t)
    /\ \A j \in 1..Len(w) : Fold(t[k + j - 1]) = Fold(w[j])

(* String.prototype.match found nothing                                    *)
NoMatch == [index |-> -1]

(* the keyword part of the three heading patterns, tried at position j:    *)
(* Hook, Body, (?:CTA|Call\s*to\s*Action); the position after it, or 0     *)
AfterKeyword(t, j, key) ==
    CASE key = "hook" -> IF WordAt(t, j, <<"H", "o", "o", "k">>) THEN j + 4 ELSE 0
      [] key = "body" -> IF WordAt(t, j, <<"B", "o", "d", "y">>) THEN j + 4 ELSE 0
      [] key = "cta" ->
           IF WordAt(t, j, <<"C", "T", "A">>) THEN j + 3
           ELSE IF WordAt(t, j, <<"C", "a", "l", "l">>)
           THEN LET a == SkipSpace(t, j + 4)
                IN IF WordAt(t, a, <<"t", "o">>)
                   THEN LET b == SkipSpace(t, a + 2)
                        IN IF WordAt(t, b, <<"A", "c", "t", "i", "o", "n">>)
                           THEN b + 6 ELSE 0
                   ELSE 0
           ELSE 0

(* variant of HeaderEnd whose match ends with the keyword                   *)
HeaderEnd_KeywordOnly(t, k, key) ==
    IF AtLineStart(t, k) /\ k + 1 <= Len(t) /\ t[k] = "#" /\ t[k + 1] = "#"
    THEN AfterKeyword(t, SkipSpace(t, k + 2), key)
    ELSE 0

(* /^##\s*<keyword>.*$/im tried at position k: the position after the      *)
(* match, or 0 when the pattern does not match there                       *)
HeaderEnd(t, k, key) ==
    IF AtLineStart(t, k) /\ k + 1 <= Len(t) /\ t[k] = "#" /\ t[k + 1] = "#"
    THEN LET e == AfterKeyword(t, SkipSpace(t, k + 2), key)
         IN IF e = 0 THEN 0 ELSE LineEnd(t, e)
    ELSE 0

(* variant of MatchHeader that takes the last heading of the keyword       *)
MatchHeader_LastMatch(t, key) ==
    LET S == {k \in 1..Len(t) : HeaderEnd(t, k, key) # 0}
    IN IF S = {} THEN NoMatch
       ELSE [key |-> key, index |-> Max(S) - 1,
             length |-> HeaderEnd(t, Max(S), key) - Max(S)]

(* normalizedMd.match(h.regex): the leftmost match, as                     *)
(* { ...h, index: match.index, length: match[0].length }                   *)
MatchHeader(t, key) ==
    LET S == {k \in 1..Len(t) : HeaderEnd(t, k, key) # 0}
    IN IF S = {} THEN NoMatch
       ELSE [key |-> key, index |-> Min(S) - 1,
             length |-> HeaderEnd(t, Min(S), key) - Min(S)]

(* "\s*(.+)$" from position from: the white space is taken greedily and    *)
(* given back until a character of the line is left for the group          *)
Capture(t, from) ==
    LET j == SkipSpace(t, from)
        Q == {q \in from..j : q <= Len(t) /\ t[q] \notin LineTerminators}
    IN IF Q = {} THEN NoMatch
       ELSE [index |-> from, text |-> SubSeq(t, Max(Q), LineEnd(t, Max(Q)) - 1)]

(* /^#\s+(.+)$/m tried at position k                                       *)
TitleAt(t, k) ==
    IF AtLineStart(t, k) /\ t[k] = "#" /\ k + 1 <= Len(t)
         /\ t[k + 1] \in WhiteSpace
    THEN Capture(t, k + 2)
    ELSE NoMatch

(* normalizedMd.match(/^#\s+(.+)$/m)                                       *)
MatchTitle(t) ==
    LET S == {k \in 1..Len(t) : TitleAt(t, k) # NoMatch}
    IN IF S = {} THEN NoMatch ELSE TitleAt(t, Min(S))

(* (?:\*\*|__) at position k                                               *)
MarkerAt(t, k) ==
    /\ k + 1 <= Len(t)
    /\ \/ t[k] = "*" /\ t[k + 1] = "*"
       \/ t[k] = "_" /\ t[k + 1] = "_"

(* /^(?:\*\*|__)?Style:(?:\*\*|__)?\s*(.+)$/im tried at position k         *)
StyleAt(t, k) ==
    LET w == IF MarkerAt(t, k) THEN k + 2 ELSE k
        p == w + 6
    IN IF AtLineStart(t, k) /\ WordAt(t, w, <<"S", "t", "y", "l", "e", ":">>)
       THEN IF MarkerAt(t, p) /\ Capture(t, p + 2) # NoMatch
            THEN Capture(t, p + 2)
            ELSE Capture(t, p)
       ELSE NoMatch

(* normalizedMd.match(/^(?:\*\*|__)?Style:(?:\*\*|__)?\s*(.+)$/im)         *)
MatchStyle(t) ==
    LET S == {k \in 1..Len(t) : StyleAt(t, k) # NoMatch}
    IN IF S = {} THEN NoMatch ELSE StyleAt(t, Min(S))

(* variant of SortByIndex that keeps the order of the headers array        *)
SortByIndex_Unsorted(H) ==
    LET order == <<"hook", "body", "cta">>
        RECURSIVE Listed(_)
        Listed(i) ==
            IF i > 3 THEN <<>>
            ELSE (IF \E h \in H : h.key = order[i]
                  THEN <<CHOOSE h \in H : h.key = order[i]>> ELSE <<>>)
                 \o Listed(i + 1)
    IN Listed(1)

(* .sort((a, b) => a.index - b.index) of the found headers                 *)
SortByIndex(H) ==
    LET RECURSIVE Sorted(_)
        Sorted(S) ==
            IF S = {} THEN <<>>
            ELSE LET h == CHOOSE x \in S : \A y \in S : x.index <= y.index
                 IN <<h>> \o Sorted(S \ {h})
    IN Sorted(H)

(* null, as the value of editableScript                                    *)
NoScript == [script |-> "null"]

IsScript(s) == s # NoScript

SectionKeys == {"hook", "body", "cta"}

DefaultTitle == <<"Untitled Video">>

DefaultStyle == <<"Cinematic, high contrast">>

(* lines 88-105: the record built from the found headers, in their order   *)
BuildResult(normalizedMd, title, visualStyle, foundHeaders) ==
    LET sectionContent(i) ==
            LET current == foundHeaders[i]
                start == current.index + current.length
                end == IF i < Len(foundHeaders) THEN foundHeaders[i + 1].index
                       ELSE Len(normalizedMd)
            IN Trim(Substring(normalizedMd, start, end))
        field(key) ==
            LET S == {i \in 1..Len(foundHeaders) : foundHeaders[i].key = key}
            IN IF S = {} THEN <<>> ELSE sectionContent(Max(S))
    IN [title |-> title, visualStyle |-> visualStyle,
        hook |-> field("hook"), body |-> field("body"), cta |-> field("cta")]

(* lines 62-86 on the normalized text                                      *)
Extract(normalizedMd) ==
    LET titleMatch == MatchTitle(normalizedMd)
        title == IF titleMatch # NoMatch THEN Trim(titleMatch.text)
                 ELSE DefaultTitle
        styleMatch == MatchStyle(normalizedMd)
        visualStyle == IF styleMatch # NoMatch THEN Trim(styleMatch.text)
                       ELSE DefaultStyle
        found == {h \in {MatchHeader(normalizedMd, key) : key \in SectionKeys} :
                    h # NoMatch}
    IN IF found = {} THEN NoScript
       ELSE BuildResult(normalizedMd, title, visualStyle, SortByIndex(found))

(* parseScript (ScriptPreview.tsx 56-106)                                  *)
parseScript(md) ==
    IF md = <<>> THEN NoScript ELSE Extract(Normalize(md))

(***************************************************************************)
(* The script preview (ScriptPreview.tsx)                                  *)
(***************************************************************************)

(* pieces of text a streamed reply grows by: whole lines and fragments     *)
HookLine == <<"#", "#", " ", "H", "o", "o", "k", "\n">>

BodyLine == <<"#", "#", " ", "B", "o", "d", "y", "\n">>

CtaLine == <<"#", "#", " ", "C", "T", "A", "\n">>

CallToActionLine ==
    <<"#", "#", " ", "C", "a", "l", "l", " ", "t", "o", " ",
      "A", "c", "t", "i", "o", "n", "\n">>

(* headings of the spec's edge cases: longer than a keyword, and with the   *)
(* keyword later in the line                                               *)
HooksAndLoopsLine ==
    <<"#", "#", " ", "H", "o", "o", "k", "s", " ", "a", "n", "d", " ",
      "L", "o", "o", "p", "s", "\n">>

TheHookLine == <<"#", "#", " ", "T", "h", "e", " ", "H", "o", "o", "k", "\n">>

TitleLine == <<"#", " ", "T", "\n">>

StyleLine == <<"S", "t", "y", "l", "e", ":", " ", "s", "\n">>

Fragments ==
    {HookLine, BodyLine, CtaLine, CallToActionLine, TitleLine, StyleLine,
     HooksAndLoopsLine, TheHookLine,
     <<"#", "#">>, <<"#">>, <<"H", "o", "o", "k">>, <<"b", "o", "d", "y">>,
     <<"x">>, <<"\n">>}

(* variant of SyncEffect that follows the markdown prop after an edit too  *)
SyncEffect_IgnoresEdits == editableScript' = parseScript(markdown')

(* the effect that follows the markdown prop (lines 109-114)               *)
SyncEffect ==
    editableScript' = IF isEdited' THEN editableScript ELSE parseScript(markdown')

(* the markdown prop grows by the piece f (the text of a reply that is     *)
(* still arriving); the effect runs for the new text                       *)
MarkdownGrows(f) ==
    /\ chunks < MaxChunks
    /\ chunks' = chunks + 1
    /\ markdown' = markdown \o f
    /\ UNCHANGED <<isEdited, prompt, refImageVars>>
    /\ SyncEffect
    /\ UNCHANGED <<generationVars, chatVars>>

(* handleInputChange (lines 116-120)                                       *)
HandleInputChange(field, value) ==
    /\ IF ~IsScript(editableScript)
       THEN UNCHANGED <<editableScript, isEdited>>
       ELSE /\ editableScript' = [editableScript EXCEPT ![field] = value]
            /\ isEdited' = TRUE
    /\ UNCHANGED <<markdown, chunks, prompt, refImageVars>>
    /\ UNCHANGED <<generationVars, chatVars>>

(* handleReset (lines 122-124), on the Reset button shown while isEdited;  *)
(* the effect runs because isEdited changed                                *)
HandleReset ==
    /\ isEdited
    /\ isEdited' = FALSE
    /\ UNCHANGED <<markdown, chunks, prompt, refImageVars>>
    /\ SyncEffect
    /\ UNCHANGED <<generationVars, chatVars>>

StyleLabel == <<"Style: ">>

HookLabel == <<"Scene 1 (Hook): ">>

BodyLabel == <<"Scene 2 (Body): ">>

CtaLabel == <<"Scene 3 (CTA): ">>

Separator == <<".", " ">>

(* parts.join('. ')                                                        *)
Join(parts) ==
    LET RECURSIVE Joined(_)
        Joined(ps) ==
            IF ps = <<>> THEN <<>>
            ELSE IF Len(ps) = 1 THEN ps[1]
            ELSE ps[1] \o Separator \o Joined(Tail(ps))
    IN Joined(parts)

(* variant of constructPrompt that falls back whenever one part is built   *)
constructPrompt_FallbackForAnyPart(script) ==
    IF ~IsScript(script) THEN <<>>
    ELSE
    LET parts ==
            (IF script.visualStyle # <<>>
             THEN <<StyleLabel \o script.visualStyle>> ELSE <<>>)
            \o (IF script.hook # <<>> THEN <<HookLabel \o script.hook>> ELSE <<>>)
            \o (IF script.body # <<>> THEN <<BodyLabel \o script.body>> ELSE <<>>)
            \o (IF script.cta # <<>> THEN <<CtaLabel \o script.cta>> ELSE <<>>)
    IN IF Len(parts) = 1
       THEN script.title \o Separator \o script.visualStyle
       ELSE Join(parts)

(* constructPrompt (lines 144-159) for the script held                     *)
constructPrompt(script) ==
    IF ~IsScript(script) THEN <<>>
    ELSE
    LET parts ==
            (IF script.visualStyle # <<>>
             THEN <<StyleLabel \o script.visualStyle>> ELSE <<>>)
            \o (IF script.hook # <<>> THEN <<HookLabel \o script.hook>> ELSE <<>>)
            \o (IF script.body # <<>> THEN <<BodyLabel \o script.body>> ELSE <<>>)
            \o (IF script.cta # <<>> THEN <<CtaLabel \o script.cta>> ELSE <<>>)
    IN IF Len(parts) = 1 /\ script.hook = <<>>
       THEN script.title \o Separator \o script.visualStyle
       ELSE Join(parts)

(* no prompt has been passed to onGenerateVideo yet                        *)
NoPrompt == <<"no prompt">>

(* null, as the value of refImageData                                      *)
NoRefImage == [image |-> "null"]

(* undefined, as the refImage argument of onGenerateVideo                  *)
Undefined == [image |-> "undefined"]

(* handleGenerate (lines 161-166), on the Generate Video button, which is  *)
(* rendered when a script is held and disabled while busy                  *)
HandleGenerate ==
    /\ IsScript(editableScript)
    /\ ~ScriptPreviewIsBusy(generationStatus)
    /\ prompt' = constructPrompt(editableScript)
    /\ imageToUse' = IF useRefImage /\ refImageData # NoRefImage
                     THEN refImageData ELSE Undefined
    /\ UNCHANGED <<markdown, chunks, editableScript, isEdited,
                   useRefImage, refImageData>>
    /\ UNCHANGED <<generationVars, chatVars>>

(* the Use Image checkbox, rendered when a reference image is held (lines  *)
(* 270-278 of the preview that shows a script)                             *)
ToggleUseRefImage ==
    /\ IsScript(editableScript)
    /\ refImageData # NoRefImage
    /\ useRefImage' = ~useRefImage
    /\ UNCHANGED <<markdown, chunks, editableScript, isEdited, prompt,
                   refImageData, imageToUse>>
    /\ UNCHANGED <<generationVars, chatVars>>

(* the Remove button of the reference image (lines 300-308)                *)
RemoveRefImage ==
    /\ IsScript(editableScript)
    /\ refImageData # NoRefImage
    /\ refImageData' = NoRefImage
    /\ useRefImage' = FALSE
    /\ UNCHANGED <<markdown, chunks, editableScript, isEdited, prompt,
                   imageToUse>>
    /\ UNCHANGED <<generationVars, chatVars>>

(* handleRefImageUpload with its FileReader callback (lines 126-142)       *)
HandleRefImageUpload(file) ==
    /\ IsScript(editableScript)
    /\ refImageData' = [data |-> file.data, mimeType |-> file.mimeType]
    /\ useRefImage' = TRUE
    /\ UNCHANGED <<markdown, chunks, editableScript, isEdited, prompt,
                   imageToUse>>
    /\ UNCHANGED <<generationVars, chatVars>>

(* the values a user types into a field of the script                      *)
EditValues == {<<>>, <<"v">>}

ScriptFields == {"title", "visualStyle", "hook", "body", "cta"}

(* replies the preview starts from in PreviewSpec                          *)
PreviewTexts ==
    {<<>>,
     HookLine,
     TitleLine \o StyleLine \o HookLine \o <<"x", "\n">> \o BodyLine
       \o <<"x", "\n">> \o CtaLine \o <<"x">>}

PreviewNext ==
    \/ \E field \in ScriptFields, value \in EditValues :
          HandleInputChange(field, value)
    \/ HandleReset
    \/ HandleGenerate

ParseNext ==
    \E f \in Fragments : MarkdownGrows(f)

(***************************************************************************)
(* The chat (App.tsx 19-125, geminiService.ts 28-84)                       *)
(***************************************************************************)

(* Bound: number of messages the user sends in one behaviour               *)
MaxSends == 2

(* Bound: number of chunks the remote service streams in one reply         *)
MaxReplyChunks == 1

(* undefined / null, as the value of an attachment                         *)
NoAttachment == [type |-> "none"]

(* files the user can pick: two images and a video                         *)
Files ==
    {[data |-> "A", mimeType |-> "image/png"],
     [data |-> "B", mimeType |-> "image/png"],
     [data |-> "C", mimeType |-> "video/mp4"]}

(* file.type.startsWith('video/') ? 'video' : 'image'                      *)
MediaType(mimeType) == IF mimeType = "video/mp4" THEN "video" ELSE "image"

(* texts the user types into the chat input                                *)
Inputs == {<<>>, <<"h", "i">>}

(* texts of the chunks the remote service streams                          *)
ChatChunks == {<<"o", "k">>}

(* the chunk the catch block of sendMessageStream yields                   *)
ApologyText ==
    <<"Sorry, I encountered an error processing your request. Please try again.">>

(* the greeting the conversation starts with                               *)
GreetingText == <<"Hi! I'm **AdGen**.">>

NewMessage(id, role, content, attachment, isStreaming) ==
    [id |-> id, role |-> role, content |-> content,
     attachment |-> attachment, isStreaming |-> isStreaming]

(* no handleSendMessage invocation is running                              *)
NoSend == [pc |-> "none", botMessageId |-> 0, fullContent |-> <<>>, received |-> 0]

(* Date.now() at a send: a timestamp above every id given so far (two      *)
(* sends are more than 1 ms apart)                                         *)
DateNow == Len(messages) + 1

UserMessages == {i \in 1..Len(messages) : messages[i].role = "user"}

(* Array.prototype.reverse on a copy                                       *)
Reverse(a) == [i \in 1..Len(a) |-> a[Len(a) + 1 - i]]

(* a.find(m => m.role === 'user' && m.attachment?.type === 'image')        *)
(*   ?.attachment                                                          *)
FindUserImage(a) ==
    LET S == {i \in 1..Len(a) :
                a[i].role = "user" /\ a[i].attachment.type = "image"}
    IN IF S = {} THEN NoAttachment ELSE a[Min(S)].attachment

(* variant of lastUserImageAttachment that searches from the oldest message *)
lastUserImageAttachment_Oldest(ms) ==
    [attachment |-> FindUserImage(ms), messages |-> ms]

(* lastUserImageAttachment (App.tsx 226-228): what it evaluates to, and    *)
(* the messages array after the evaluation (reverse() reorders the copy    *)
(* made by the spread)                                                     *)
lastUserImageAttachment(ms) ==
    [attachment |-> FindUserImage(Reverse(ms)), messages |-> ms]

(* content.includes('# ')                                                   *)
IncludesHashSpace(content) ==
    \E k \in 1..(Len(content) - 1) : content[k] = "#" /\ content[k + 1] = " "

(* latestScriptMarkdown (App.tsx 223): the content of the newest model      *)
(* message that includes '# ', or ''                                        *)
latestScriptMarkdown(ms) ==
    LET S == {i \in 1..Len(ms) :
                ms[i].role = "model" /\ IncludesHashSpace(ms[i].content)}
    IN IF S = {} THEN <<>> ELSE ms[Max(S)].content

(* the effect that follows the lastImageAttachment prop (ScriptPreview.tsx  *)
(* 48-53). App builds the prop as a new object in every render in which a  *)
(* user image exists (App.tsx 369), so the dependency differs from the one *)
(* of the last render and the effect runs after each render of App         *)
RefImageEffect(attachment) ==
    IF attachment # NoAttachment
    THEN /\ refImageData' = [data |-> attachment.data,
                             mimeType |-> attachment.mimeType]
         /\ useRefImage' = TRUE
    ELSE UNCHANGED <<useRefImage, refImageData>>

(* App renders with its new state and passes ScriptPreview its props (lines *)
(* 365-370; the video studio is the active one): the markdown prop is       *)
(* latestScriptMarkdown, and the effect of lines 109-114 runs when it has   *)
(* changed                                                                  *)
RenderScriptPreview ==
    /\ markdown' = latestScriptMarkdown(messages')
    /\ UNCHANGED <<chunks, isEdited, prompt, imageToUse>>
    /\ IF markdown' # markdown THEN SyncEffect ELSE UNCHANGED editableScript
    /\ RefImageEffect(lastUserImageAttachment(messages').attachment)

(* setInput(e.target.value) (line 309), on a change of the input's value;  *)
(* the composer is followed while a further send is within MaxSends        *)
TypeInput(text) ==
    /\ Cardinality(UserMessages) < MaxSends
    /\ text # input
    /\ input' = text
    /\ UNCHANGED <<messages, selectedMedia, isTyping, chatSession, send>>
    /\ UNCHANGED generationVars
    /\ RenderScriptPreview

(* handleFileUpload with its FileReader callback (lines 47-74); followed   *)
(* while a further send is within MaxSends                                 *)
HandleFileUpload(file) ==
    /\ Cardinality(UserMessages) < MaxSends
    /\ selectedMedia' = [type |-> MediaType(file.mimeType),
                         mimeType |-> file.mimeType, data |-> file.data]
    /\ UNCHANGED <<messages, input, isTyping, chatSession, send>>
    /\ UNCHANGED generationVars
    /\ RenderScriptPreview

(* the Remove button of the media preview (line 281)                       *)
RemoveSelectedMedia ==
    /\ selectedMedia # NoAttachment
    /\ selectedMedia' = NoAttachment
    /\ UNCHANGED <<messages, input, isTyping, chatSession, send>>
    /\ UNCHANGED generationVars
    /\ RenderScriptPreview

(* handleSendMessage up to the first await of its stream (lines 77-101)    *)
HandleSendMessage ==
    /\ Cardinality(UserMessages) < MaxSends
    /\ IF (Trim(input) = <<>> /\ selectedMedia = NoAttachment) \/ isTyping
       THEN UNCHANGED <<chatVars, previewVars>>
       ELSE /\ messages' = messages
                 \o <<NewMessage(DateNow, "user", input, selectedMedia, FALSE),
                      NewMessage(DateNow + 1, "model", <<>>, NoAttachment, TRUE)>>
            /\ input' = <<>>
            /\ selectedMedia' = NoAttachment
            /\ isTyping' = TRUE
            /\ send' = [pc |-> "start", botMessageId |-> DateNow + 1,
                        fullContent |-> <<>>, received |-> 0]
            /\ UNCHANGED chatSession
            /\ RenderScriptPreview
    /\ UNCHANGED generationVars

(* sendMessageStream: initializeChat() throws (lines 52-54, outside the    *)
(* try block); handleSendMessage logs the error and its finally block      *)
(* clears isTyping (lines 114-118)                                         *)
InitializeChatThrows ==
    /\ send.pc = "start"
    /\ ~chatSession
    /\ isTyping' = FALSE
    /\ send' = NoSend
    /\ UNCHANGED <<messages, input, selectedMedia, chatSession>>
    /\ UNCHANGED generationVars
    /\ RenderScriptPreview

(* sendMessageStream: the chat session exists or is created, and           *)
(* chatSession.sendMessageStream resolves with the response stream; no     *)
(* state of App changes, so nothing renders                                *)
StreamOpens ==
    /\ send.pc = "start"
    /\ chatSession' = TRUE
    /\ send' = [send EXCEPT !.pc = "streaming"]
    /\ UNCHANGED <<messages, input, selectedMedia, isTyping>>
    /\ UNCHANGED <<generationVars, previewVars>>

(* variant of SetContent that writes the content to every model message    *)
SetContent_EveryModelMessage(id, content) ==
    [i \in 1..Len(messages) |->
        IF messages[i].role = "model"
        THEN [messages[i] EXCEPT !.content = content]
        ELSE messages[i]]

(* prev.map(msg => msg.id === botMessageId                                 *)
(*                   ? { ...msg, content: fullContent } : msg)             *)
SetContent(id, content) ==
    [i \in 1..Len(messages) |->
        IF messages[i].id = id
        THEN [messages[i] EXCEPT !.content = content]
        ELSE messages[i]]

(* the body of the for await loop for a yielded chunk (lines 104-112)      *)
Receive(chunk, pc) ==
    /\ send' = [send EXCEPT !.fullContent = @ \o chunk, !.pc = pc,
                            !.received = @ + 1]
    /\ messages' = SetContent(send.botMessageId, send.fullContent \o chunk)
    /\ UNCHANGED <<input, selectedMedia, isTyping, chatSession>>
    /\ UNCHANGED generationVars
    /\ RenderScriptPreview

(* the response stream yields a chunk                                      *)
ChunkArrives(chunk) ==
    /\ send.pc = "streaming"
    /\ send.received < MaxReplyChunks
    /\ Receive(chunk, "streaming")

(* the call or the response stream fails: the catch block of               *)
(* sendMessageStream yields the apology, after which the generator ends    *)
StreamFails ==
    /\ \/ send.pc = "start" /\ chatSession
       \/ send.pc = "streaming"
    /\ Receive(ApologyText, "ending")

(* the generator is done: the message stops streaming (lines 114-118) and  *)
(* the finally block clears isTyping                                       *)
StreamEnds ==
    /\ send.pc \in {"streaming", "ending"}
    /\ messages' = [i \in 1..Len(messages) |->
                      IF messages[i].id = send.botMessageId
                      THEN [messages[i] EXCEPT !.isStreaming = FALSE]
                      ELSE messages[i]]
    /\ isTyping' = FALSE
    /\ send' = NoSend
    /\ UNCHANGED <<input, selectedMedia, chatSession>>
    /\ UNCHANGED generationVars
    /\ RenderScriptPreview

ChatNext ==
    \/ \E text \in Inputs : TypeInput(text)
    \/ \E file \in Files : HandleFileUpload(file)
    \/ RemoveSelectedMedia
    \/ HandleSendMessage
    \/ InitializeChatThrows
    \/ StreamOpens
    \/ \E chunk \in ChatChunks : ChunkArrives(chunk)
    \/ StreamFails
    \/ StreamEnds

(* chunks of a reply that carries a script: a section heading line and a   *)
(* title line                                                              *)
ScriptChunks == {HookLine, TitleLine}

(* the conversation with replies that carry scripts and stream to their    *)
(* end (the failures of a send are followed in ChatSpec), and the user     *)
(* editing the script the preview holds                                    *)
FollowNext ==
    \/ \E text \in Inputs : TypeInput(text)
    \/ HandleSendMessage
    \/ StreamOpens
    \/ \E chunk \in ScriptChunks : ChunkArrives(chunk)
    \/ StreamEnds
    \/ \E field \in ScriptFields, value \in EditValues :
          HandleInputChange(field, value)
    \/ HandleReset

(* the image files among Files (the file input accepts images)            *)
ImageFiles == {file \in Files : MediaType(file.mimeType) = "image"}

(* the conversation with attached files and replies that carry scripts,    *)
(* and the user handling the reference image of the preview                *)
RefImageNext ==
    \/ \E text \in Inputs : TypeInput(text)
    \/ \E file \in Files : HandleFileUpload(file)
    \/ HandleSendMessage
    \/ StreamOpens
    \/ \E chunk \in ScriptChunks : ChunkArrives(chunk)
    \/ StreamEnds
    \/ ToggleUseRefImage
    \/ RemoveRefImage
    \/ \E file \in ImageFiles : HandleRefImageUpload(file)
    \/ HandleGenerate

(***************************************************************************)
(* Initial states and specifications                                       *)
(***************************************************************************)
PreviewInit ==
    /\ markdown = <<>>
    /\ chunks = 0
    /\ editableScript = NoScript
    /\ isEdited = FALSE
    /\ prompt = NoPrompt
    /\ useRefImage = TRUE
    /\ refImageData = NoRefImage
    /\ imageToUse = Undefined

ChatInit ==
    /\ messages = <<NewMessage(1, "model", GreetingText, NoAttachment, FALSE)>>
    /\ input = <<>>
    /\ selectedMedia = NoAttachment
    /\ isTyping = FALSE
    /\ chatSession = FALSE
    /\ send = NoSend

(* the application after mounting                                          *)
Init == GenerationInit /\ PreviewInit /\ ChatInit

(* generation: the handlers, the services and the buttons                  *)
Spec == Init /\ [][Next]_vars

(* a promise call i awaits (the auth check, the interactive prompt, the    *)
(* submit, the poll timer, the poll) resolves or rejects                   *)
CollaboratorSettles(i) ==
    /\ \/ \E hasKey \in {"yes", "no"}, confirm \in BOOLEAN :
             AuthCheckResolves(i, hasKey, confirm)
       \/ AuthCheckRejects(i)
       \/ PromptAuthSettles(i)
       \/ \E op \in Operations : SubmitVideoResolves(i, op)
       \/ \E m \in RemoteMessages : SubmitVideoRejects(i, m)
       \/ PollTimerFires(i)
       \/ \E op \in Operations : PollResolves(i, op)
       \/ \E m \in RemoteMessages : PollRejects(i, m)
       \/ \E hasImage \in BOOLEAN : ImageResolves(i, hasImage)
       \/ \E m \in RemoteMessages : ImageRejects(i, m)
       \/ PromptRetrySettles(i)
    /\ GenerationOnly

(* a poll of call i is answered with an operation that is done             *)
JobReportsDone(i) ==
    /\ \E op \in {o \in Operations : o.done} : PollResolves(i, op)
    /\ GenerationOnly

(* generation with collaborators that settle every call awaited and a      *)
(* remote job that reports done to one of the polls                        *)
FairSpec ==
    /\ Init /\ [][Next]_vars
    /\ \A i \in 1..MaxCalls :
          WF_vars(CollaboratorSettles(i)) /\ SF_vars(JobReportsDone(i))

(* the preview following a reply that grows chunk by chunk                 *)
ParseSpec == Init /\ [][ParseNext]_vars

(* the preview holding the script of a reply: after the effect has run for *)
(* the markdown prop, the script held is parseScript of it                 *)
PreviewSpecInit ==
    /\ GenerationInit
    /\ ChatInit
    /\ markdown \in PreviewTexts
    /\ chunks = 0
    /\ editableScript = parseScript(markdown)
    /\ isEdited = FALSE
    /\ prompt = NoPrompt
    /\ useRefImage = TRUE
    /\ refImageData = NoRefImage
    /\ imageToUse = Undefined

PreviewSpec == PreviewSpecInit /\ [][PreviewNext]_vars

(* the conversation                                                        *)
ChatSpec == Init /\ [][ChatNext]_vars

(* the preview following the conversation                                  *)
FollowSpec == Init /\ [][FollowNext]_vars

(* the reference image of the preview                                      *)
RefImageSpec == Init /\ [][RefImageNext]_vars

(***************************************************************************)
(* Derived notions used by the properties                                  *)
(***************************************************************************)

(* call c has called its media service (generateVeoVideo, generateImage    *)
(* or editImage), which sends the job to the remote service                *)
HasSubmitted(c) ==
    \/ c.pc \in {"submit", "sleep", "poll", "promptRetry"}
    \/ c.err # NoError
    \/ c.result # NoResult

SubmittedIn(cs) == {i \in 1..Len(cs) : HasSubmitted(cs[i])}

Submitted == SubmittedIn(calls)

(* the most recently submitted job *)
LastJob == CHOOSE i \in Submitted : \A j \in Submitted : j <= i

(* calls between the start of their auth check and the end of their job    *)
InFlight == {i \in CallIds : calls[i].pc \in {"checkAuth", "submit", "sleep", "poll"}}

(* what a step taken while status is 'generating' or 'polling' may do      *)
C1_BusyStep ==
    generationStatus \in {"generating", "polling"}
      => /\ Len(calls') = Len(calls)
         /\ SubmittedIn(calls') = Submitted
         /\ (ClickGenerateVideo \/ ClickGenerateImage \/ ClickEditImage
               => UNCHANGED vars)

(***************************************************************************)
(* C1: a generation request made while status is 'generating' or 'polling' *)
(* is rejected: from such a state no step starts a handler invocation or   *)
(* submits a second job; the click leaves every variable as it is.         *)
(***************************************************************************)
C1_BusyRejection ==
    [][C1_BusyStep]_vars

(* a job is in flight, the status is 'generating' and a further click is   *)
(* still possible within the bound                                         *)
C1_Witness ==
    /\ generationStatus = "generating"
    /\ Len(calls) >= 1 /\ Len(calls) < MaxCalls
    /\ \E i \in CallIds : calls[i].pc \in {"submit", "sleep", "poll"}

C3_ClaimedStep ==
    generationStatus \in {"idle", "completed", "error"}
      => /\ Len(calls') > Len(calls) => generationStatus' = "checking-auth"
         /\ generationStatus' # "generating"
         /\ generationStatus' \in {generationStatus, "checking-auth", "idle"}
         /\ (generationStatus # "idle" /\ generationStatus' = "idle"
               => ClickReset)

(***************************************************************************)
(* C3 as claimed: every new request made from idle, completed or error,    *)
(* of any of the three kinds, first moves status to 'checking-auth';       *)
(* status never steps from those statuses to 'generating'; from completed  *)
(* or error the only other successor is idle, by reset.                    *)
(***************************************************************************)
C3_Original ==
    [][C3_ClaimedStep]_vars

(* the steps the amended C3 allows from a non-busy status                  *)
C3_AmendedStep ==
    generationStatus \in {"idle", "completed", "error"}
      => /\ Len(calls') > Len(calls)
              => /\ Len(calls') = Len(calls) + 1
                 /\ calls'[Len(calls')].kind \in {"video", "image"}
                      => generationStatus' = "checking-auth"
                 /\ calls'[Len(calls')].kind = "edit"
                      => generationStatus' = "generating"
         /\ generationStatus' = "generating"
              => /\ Len(calls') = Len(calls) + 1
                 /\ calls'[Len(calls')].kind = "edit"
         /\ generationStatus' \in
              {generationStatus, "checking-auth", "generating", "idle"}
         /\ (generationStatus # "idle" /\ generationStatus' = "idle"
               => ClickReset)

(***************************************************************************)
(* C3 as amended: every new video or image request made from idle,         *)
(* completed or error first moves status to 'checking-auth'; an image-edit *)
(* request makes no auth check and moves status directly to 'generating',  *)
(* and no other step leads from those statuses to 'generating'; from       *)
(* completed or error the only other successor is idle, by reset.          *)
(***************************************************************************)
C3_RequestsStartWithAuthExceptEdit ==
    [][C3_AmendedStep]_vars

(* an image edit ran without auth check and finished, and a later video or *)
(* image request made from completed or error is now in 'checking-auth'    *)
C3_Witness ==
    \E i, j \in CallIds :
        /\ i < j
        /\ calls[i].kind = "edit" /\ calls[i].pc = "returned"
        /\ calls[j].kind \in {"video", "image"} /\ calls[j].pc = "checkAuth"
        /\ generationStatus = "checking-auth"

(***************************************************************************)
(* C4 as claimed: no path reaches 'completed' without passing through      *)
(* 'polling': whenever status is 'completed', 'polling' was assigned       *)
(* earlier in the same request, after its 'generating'.                    *)
(***************************************************************************)
C4_CompletedOnlyAfterPolling ==
    generationStatus = "completed" => "polling" \in statusTrail

(* what a step may do to a request whose auth check returned false         *)
C5_DeniedStep ==
    /\ \A i \in CallIds :
         calls[i].pc = "checkAuth" /\ calls'[i].hasKey = "no"
           => generationStatus' = "idle"
    /\ \A i \in 1..Len(calls') :
         calls'[i].hasKey = "no"
           => /\ calls'[i].pc \in {"promptAuth", "returned"}
              /\ ~HasSubmitted(calls'[i])

(***************************************************************************)
(* C5: when the auth check returns false, status returns to 'idle' and the *)
(* request never reaches 'generating' and never submits a job, whether or  *)
(* not the user accepts the key-selection prompt and however it ends.      *)
(***************************************************************************)
C5_AuthDeniedNeverGenerates ==
    [][C5_DeniedStep]_vars

(* a request was denied, the user accepted the prompt, the prompt settled  *)
C5_Witness ==
    \E i \in CallIds :
        /\ calls[i].hasKey = "no"
        /\ calls[i].pc = "returned"
        /\ generationStatus = "idle"

(***************************************************************************)
(* C6 as claimed: when the auth check itself throws, the failure is        *)
(* swallowed and treated as access granted: the request goes on to         *)
(* 'generating' and submits its job.                                       *)
(***************************************************************************)
C6_CheckFailureTreatedAsGranted ==
    \A i \in CallIds :
        calls[i].kind \in {"video", "image"} /\ calls[i].hasKey = "threw"
          => HasSubmitted(calls[i])

(***************************************************************************)
(* C7: whenever status is 'completed', the job that just finished has its  *)
(* result stored: after a video job videoUrl is non-null and is the URL    *)
(* that job returned, after an image or image-edit job generatedImageUrl   *)
(* is non-null and is that job's image.                                    *)
(***************************************************************************)
C7_CompletedCarriesResult ==
    generationStatus = "completed"
      => /\ Submitted # {}
         /\ calls[LastJob].pc = "returned"
         /\ calls[LastJob].err = NoError
         /\ IF calls[LastJob].kind = "video"
            THEN /\ videoUrl # Null
                 /\ videoUrl = <<"veo-uri", LastJob, "&key=", "API_KEY">>
                 /\ calls[LastJob].result = videoUrl
            ELSE /\ generatedImageUrl # Null
                 /\ generatedImageUrl = <<"data:image/png;base64,", LastJob>>
                 /\ calls[LastJob].result = generatedImageUrl

(* a second video job has completed after an earlier completed video job   *)
C7_Witness ==
    /\ generationStatus = "completed"
    /\ \E i \in CallIds :
         /\ i < LastJob
         /\ calls[i].kind = "video" /\ calls[i].result # NoResult
         /\ calls[LastJob].kind = "video"
         /\ videoUrl = calls[LastJob].result

(* the message the failed call c is to leave in errorMsg                   *)
C8_MessageOf(c) ==
    IF c.kind \in {"video", "image"} /\ c.err = "AUTH_REQUIRED"
    THEN <<"Authentication failed. Please select a valid API Key.">>
    ELSE <<CASE c.kind = "video" -> "Video generation failed. "
             [] c.kind = "image" -> "Image generation failed. "
             [] c.kind = "edit" -> "Image editing failed. ", c.err>>

(* what a step that fails a job, or ends in 'error', establishes           *)
C8_ErrorStep ==
    /\ \A i \in CallIds :
         calls[i].err = NoError /\ calls'[i].err # NoError
           => /\ generationStatus' = "error"
              /\ errorMsg' = C8_MessageOf(calls'[i])
    /\ generationStatus' = "error"
         => /\ errorMsg' # Null
            /\ SubmittedIn(calls') # {}
            /\ LET last == CHOOSE i \in SubmittedIn(calls') :
                              \A j \in SubmittedIn(calls') : j <= i
               IN /\ calls'[last].err # NoError
                  /\ errorMsg' = C8_MessageOf(calls'[last])

(***************************************************************************)
(* C8: every failure of a submit or of a terminal poll moves status to     *)
(* 'error' and stores a message; whenever status is 'error', errorMsg is   *)
(* non-null and is the message of the request that failed.                 *)
(***************************************************************************)
C8_ErrorCarriesMessage ==
    [][C8_ErrorStep]_vars

(* a job failed after an earlier job had failed with a different message   *)
C8_Witness ==
    /\ generationStatus = "error"
    /\ \E i \in CallIds :
         /\ i < LastJob
         /\ calls[i].err # NoError
         /\ calls[LastJob].err # NoError
         /\ C8_MessageOf(calls[i]) # C8_MessageOf(calls[LastJob])
         /\ errorMsg = C8_MessageOf(calls[LastJob])

(* what the original C9 requires of a reset                                *)
C9_ResetStep ==
    ClickReset
      => /\ generationStatus' = "idle"
         /\ errorMsg' = Null
         /\ videoUrl' # VeoUrl(LastJob)
         /\ generatedImageUrl' # ImageDataUrl(LastJob)

(***************************************************************************)
(* C9 as claimed: a user reset sets status to 'idle' and discards the      *)
(* current job's result and error: right after the reset errorMsg is null  *)
(* and no result of the reset job is stored.                               *)
(***************************************************************************)
C9_ResetDiscardsResultAndError ==
    [][C9_ResetStep]_vars

(***************************************************************************)
(* C10 as claimed: starting a new job discards the previous result: while  *)
(* a job is running no result of an earlier job is stored (videoUrl and    *)
(* generatedImageUrl are both null), and status 'completed' never coexists *)
(* with a stored result of a job older than the one that just completed.   *)
(***************************************************************************)
C10_NewJobDiscardsPreviousResult ==
    /\ generationStatus = "generating"
         => videoUrl = Null /\ generatedImageUrl = Null
    /\ generationStatus = "completed"
         => /\ videoUrl \in {Null, VeoUrl(LastJob)}
            /\ generatedImageUrl \in {Null, ImageDataUrl(LastJob)}

(***************************************************************************)
(* C11: while status is 'generating' or 'polling' a user-level reset is    *)
(* available (reset is a possible transition from every status, not only   *)
(* from 'error'): in every such state the Reset click can be taken, and it *)
(* moves status to 'idle' with the job left as it is.                      *)
(***************************************************************************)
C11_ResetAvailableWhileBusy ==
    generationStatus \in {"generating", "polling"} => ENABLED ClickReset

(* steps that fail the poll call of a job that is not done                 *)
C12_PollFailureStep ==
    \A i \in CallIds, m \in RemoteMessages :
        PollRejects(i, m)
          => /\ generationStatus' \in {"generating", "polling"}
             /\ calls'[i].pc \in {"sleep", "poll"}

(* steps that take a video job from polling to 'error'                     *)
C12_PollErrorStep ==
    \A i \in CallIds :
        (At(i, "poll") /\ generationStatus' = "error" /\ calls'[i].err # NoError)
          => \E op \in Operations :
                op.done /\ op.error # NoError /\ PollResolves(i, op)

(***************************************************************************)
(* C12: in generateVeoVideo a poll call (getVideosOperation) that fails    *)
(* while the job is not done is retried at the next interval and is not    *)
(* fatal: status stays busy and does not become 'error'; only a terminal   *)
(* (done) response that carries an explicit error leads to 'error'.        *)
(***************************************************************************)
C12_PollFailureIsRetried ==
    [][C12_PollFailureStep /\ C12_PollErrorStep]_vars

(* a call of the remote service made for a video or image generation is    *)
(* rejected with message m: the submit or a poll call                      *)
C13_Rejection(i, m) ==
    \/ SubmitVideoRejects(i, m)
    \/ PollRejects(i, m)
    \/ calls[i].kind = "image" /\ ImageRejects(i, m)

(* the video job ends with a terminal error whose message is m             *)
C13_TerminalError(i, m) ==
    \E op \in Operations :
        /\ op.done /\ op.error = m
        /\ SubmitVideoResolves(i, op) \/ PollResolves(i, op)

(* what a failure with message m leaves behind; prefix, text is the        *)
(* message shown for a failure that is not an access failure               *)
C13_Outcome(i, m, text) ==
    /\ generationStatus' = "error"
    /\ IF m = NotFoundText
       THEN /\ errorMsg' = <<AuthFailedText>>
            /\ calls'[i].pc = "promptRetry"
       ELSE /\ errorMsg' = <<FailurePrefix(calls[i].kind), text>>
            /\ calls'[i].pc = "returned"

(* a terminal error without a message is shown as "Video generation failed" *)
C13_FailureStep ==
    \A i \in CallIds, m \in RemoteMessages :
        /\ C13_Rejection(i, m) => C13_Outcome(i, m, m)
        /\ C13_TerminalError(i, m)
             => C13_Outcome(i, m, IF m = EmptyText
                                  THEN "Video generation failed" ELSE m)

(***************************************************************************)
(* C13: a failure of a video or image generation whose message contains    *)
(* 'Requested entity was not found' (at submit, at a poll call, or as the  *)
(* terminal error) is classified AUTH_REQUIRED: status becomes 'error'     *)
(* with the authentication-failed message and promptPaidKeyAuth is         *)
(* invoked; any other failure is surfaced with its raw message and does    *)
(* not invoke the prompt.                                                  *)
(***************************************************************************)
C13_AuthRequiredClassification ==
    [][C13_FailureStep]_vars

(* a video job failed with the not-found message and awaits the prompt     *)
C13_Witness ==
    \E i \in CallIds :
        /\ calls[i].kind = "video" /\ calls[i].pc = "promptRetry"
        /\ calls[i].err = "AUTH_REQUIRED"
        /\ errorMsg = <<AuthFailedText>>
        /\ generationStatus = "error"

(* the "##" of a heading pattern and its keyword lie on one line: a        *)
(* second-level heading whose text begins with the keyword starts at k     *)
C14_HeadingAt(t, k, key) ==
    /\ HeaderEnd(t, k, key) # 0
    /\ \A i \in k..(AfterKeyword(t, SkipSpace(t, k + 2), key) - 1) :
          t[i] \notin LineTerminators

C14_HeadingOccurs(t) ==
    \E k \in 1..Len(t), key \in SectionKeys : C14_HeadingAt(t, k, key)

(***************************************************************************)
(* C14: parseScript returns null for every text in which none of the three *)
(* section headings (## Hook, ## Body, ## CTA / Call to Action) occurs,    *)
(* even when a title line and a Style line are present, and a record for   *)
(* every text in which at least one of them occurs.                        *)
(***************************************************************************)
C14_NullIffNoHeading ==
    (parseScript(markdown) = NoScript) <=> ~C14_HeadingOccurs(Normalize(markdown))

(* the headings found in t, each with its key, position and length        *)
C15_Found(t) ==
    {MatchHeader(t, key) : key \in SectionKeys} \ {NoMatch}

(* where the section of heading h ends: the start of the nearest heading   *)
(* of H after it, or the end of the text                                   *)
C15_SectionEnd(t, H, h) ==
    Min({other.index : other \in {o \in H : o.index > h.index}} \cup {Len(t)})

(* the sections of script s are the slices of t between the headings H     *)
C15_Sliced(s, t, H) ==
    /\ \A h \in H :
          /\ h.index + h.length <= C15_SectionEnd(t, H, h)
          /\ s[h.key] = Trim(SubSeq(t, h.index + h.length + 1,
                                    C15_SectionEnd(t, H, h)))
    /\ \A h1 \in H, h2 \in H :
          h1.index < h2.index => C15_SectionEnd(t, H, h1) <= h2.index

(***************************************************************************)
(* C15: whatever the order of the found headings, each found section's     *)
(* content is the trimmed text from the end of its heading line to the     *)
(* start of the next found heading by position (the end of the text for    *)
(* the last one), stored in the field of that heading's keyword; the       *)
(* slices of two sections do not overlap.                                  *)
(***************************************************************************)
C15_SectionsSlicedByPosition ==
    IsScript(editableScript)
      => \A t \in {Normalize(markdown)} :
            \A H \in {C15_Found(t)} : C15_Sliced(editableScript, t, H)

(* the CTA heading comes before the Hook heading and has content           *)
C15_Witness ==
    /\ IsScript(editableScript)
    /\ editableScript.cta # <<>>
    /\ \E c \in C15_Found(Normalize(markdown)) :
       \E h \in C15_Found(Normalize(markdown)) :
          c.key = "cta" /\ h.key = "hook" /\ c.index < h.index

(* section key of script s is not empty                                    *)
C16_NonEmpty(s, key) == IsScript(s) /\ s[key] # <<>>

(* the claim, for the text before and after a piece is appended            *)
C16_ClaimedStep ==
    \A key \in SectionKeys :
        C16_NonEmpty(editableScript, key) => C16_NonEmpty(editableScript', key)

(***************************************************************************)
(* C16 as stated: appending text never loses an already-extracted section: *)
(* if section X is non-empty in parseScript(p), it is non-empty in         *)
(* parseScript(p followed by s).                                           *)
(***************************************************************************)
C16_Original ==
    [][C16_ClaimedStep]_vars

(* section key of script s is not empty and does not begin with "#"        *)
C16_Settled(s, key) == C16_NonEmpty(s, key) /\ s[key][1] # "#"

C16_AmendedStep ==
    \A key \in SectionKeys :
        C16_Settled(editableScript, key) => C16_Settled(editableScript', key)

(***************************************************************************)
(* C16: appending text never loses an extracted section whose content does *)
(* not begin with "#": if section X is non-empty in parseScript(p) and     *)
(* does not begin with "#", the same holds in parseScript(p followed by    *)
(* s).  (Content that begins with "#" may be the start of the next         *)
(* heading, which ends the section once its keyword arrives.)              *)
(***************************************************************************)
C16_AppendKeepsSettledSections ==
    [][C16_AmendedStep]_vars

(* the hook has content and the Body heading arrived after it              *)
C16_Witness ==
    /\ C16_Settled(editableScript, "hook")
    /\ \E h \in C15_Found(Normalize(markdown)) :
       \E b \in C15_Found(Normalize(markdown)) :
          h.key = "hook" /\ b.key = "body" /\ h.index < b.index

(***************************************************************************)
(* C17: at most one message has isStreaming = true, and such a message     *)
(* exists only while a reply is being received (isTyping is true).         *)
(***************************************************************************)
C17_AtMostOneStreaming ==
    /\ Cardinality({i \in 1..Len(messages) : messages[i].isStreaming}) <= 1
    /\ (\E i \in 1..Len(messages) : messages[i].isStreaming) => isTyping

(* text a is the beginning of text b                                       *)
C18_IsPrefix(a, b) == Len(a) <= Len(b) /\ SubSeq(b, 1, Len(a)) = a

(* the chunk updates: a chunk of the reply, or the apology                 *)
C18_ChunkUpdate(chunk) ==
    \/ ChunkArrives(chunk)
    \/ chunk = ApologyText /\ StreamFails

C18_Step ==
    /\ Len(messages') >= Len(messages)
    /\ \A i \in 1..Len(messages) :
          /\ messages'[i].id = messages[i].id
          /\ messages'[i].role = messages[i].role
          /\ messages'[i].attachment = messages[i].attachment
          /\ C18_IsPrefix(messages[i].content, messages'[i].content)
          /\ ~messages[i].isStreaming => messages'[i] = messages[i]
    /\ \A chunk \in ChatChunks \cup {ApologyText} :
          C18_ChunkUpdate(chunk)
            => /\ Len(messages') = Len(messages)
               /\ \A i \in 1..Len(messages) :
                     messages'[i] =
                        IF messages[i].id = send.botMessageId
                        THEN [messages[i] EXCEPT !.content = @ \o chunk]
                        ELSE messages[i]
    /\ StreamEnds
         => \A i \in 1..Len(messages) :
               messages[i].id = send.botMessageId => ~messages'[i].isStreaming

C19_UserImages ==
    {i \in 1..Len(messages) :
       messages[i].role = "user" /\ messages[i].attachment.type = "image"}

(***************************************************************************)
(* C19: lastUserImageAttachment is the attachment of the most recent       *)
(* message with role user and an image attachment (later user messages     *)
(* with a video or no attachment, and model messages, do not hide it), and *)
(* undefined when there is none; computing it leaves the message list      *)
(* unchanged.                                                              *)
(***************************************************************************)
C19_MostRecentUserImage ==
    /\ lastUserImageAttachment(messages).messages = messages
    /\ lastUserImageAttachment(messages).attachment =
          IF C19_UserImages = {} THEN NoAttachment
          ELSE messages[Max(C19_UserImages)].attachment

(* two different images were sent, and model messages follow the later one *)
C19_Witness ==
    /\ Cardinality(C19_UserImages) = 2
    /\ messages[Min(C19_UserImages)].attachment
         # messages[Max(C19_UserImages)].attachment
    /\ messages[Len(messages)].role = "model"

(* the labelled fragments of the non-empty fields, in the fixed order      *)
C20_Fragments(s) ==
    LET all == << <<StyleLabel, s.visualStyle>>, <<HookLabel, s.hook>>,
                  <<BodyLabel, s.body>>, <<CtaLabel, s.cta>> >>
        NonEmpty(item) == item[2] # <<>>
        kept == SelectSeq(all, NonEmpty)
    IN [i \in 1..Len(kept) |-> kept[i][1] \o kept[i][2]]

(* `${title}. ${visualStyle}`                                              *)
C20_Fallback(s) == s.title \o <<".", " ">> \o s.visualStyle

(* the fragments, each followed by ". " except the last                    *)
C20_AllJoined(fs) ==
    LET RECURSIVE From(_)
        From(i) == IF i > Len(fs) THEN <<>>
                   ELSE IF i = Len(fs) THEN fs[i]
                   ELSE fs[i] \o <<".", " ">> \o From(i + 1)
    IN From(1)

C20_ClaimedStep ==
    HandleGenerate
      => LET fs == C20_Fragments(editableScript)
         IN /\ Len(fs) = 1 => prompt' = C20_Fallback(editableScript)
            /\ Len(fs) >= 2 => prompt' = C20_AllJoined(fs)

(***************************************************************************)
(* C20 as stated: constructPrompt joins the labelled fragments of the      *)
(* non-empty fields style, hook, body, cta in that order; whenever exactly *)
(* one fragment would be produced, whichever field it comes from, the      *)
(* result is the title-plus-style fallback; with two or more fragments     *)
(* none is dropped.                                                        *)
(***************************************************************************)
C20_Original ==
    [][C20_ClaimedStep]_vars

C20_AmendedStep ==
    HandleGenerate
      => LET fs == C20_Fragments(editableScript)
         IN /\ (Len(fs) = 1 /\ editableScript.hook = <<>>)
                 => prompt' = C20_Fallback(editableScript)
            /\ (Len(fs) = 1 /\ editableScript.hook # <<>>)
                 => prompt' = HookLabel \o editableScript.hook
            /\ Len(fs) # 1 => prompt' = C20_AllJoined(fs)

(***************************************************************************)
(* C20: constructPrompt joins the labelled fragments of the non-empty      *)
(* fields style, hook, body, cta in that order and drops none; when        *)
(* exactly one fragment would be produced and it is not the hook's, the    *)
(* result is the title-plus-style fallback; a lone hook fragment is the    *)
(* result as it is.                                                        *)
(***************************************************************************)
C20_FallbackUnlessLoneHook ==
    [][C20_AmendedStep]_vars

(* the prompt passed is the lone hook fragment                             *)
C20_Witness ==
    /\ IsScript(editableScript)
    /\ editableScript.hook # <<>>
    /\ Len(C20_Fragments(editableScript)) = 1
    /\ prompt = HookLabel \o editableScript.hook

(***************************************************************************)
(* C21: the script held is the latest successfully parsed one: once a      *)
(* record is held, no step (a further chunk, a later reply) replaces it by *)
(* null.                                                                   *)
(***************************************************************************)
C21_HeldStep == IsScript(editableScript) => IsScript(editableScript')

(* C21: a held script record is never replaced by null *)
C21_HeldScriptNotReplacedByNull == [][C21_HeldStep]_vars
(* the positions (1-based) where the heading pattern of key matches in t   *)
C22_Occurrences(t, key) == {k \in 1..Len(t) : HeaderEnd(t, k, key) # 0}

(* for each keyword the first position its heading matches at, 0 if none   *)
C22_First(t) ==
    [key \in SectionKeys |->
        IF C22_Occurrences(t, key) = {} THEN 0 ELSE Min(C22_Occurrences(t, key))]

(* the 0-based position where the section of key ends: the first heading   *)
(* of another keyword after it, or the end of the text                     *)
C22_End(t, F, key) ==
    Min({F[o] - 1 : o \in {x \in SectionKeys : F[x] > F[key]}} \cup {Len(t)})

(* sections start after the first occurrences F, and every later           *)
(* occurrence lies inside the slice of a found section                     *)
C22_FirstOnly(s, t, F) ==
    /\ \A key \in SectionKeys :
          IF F[key] = 0 THEN s[key] = <<>>
          ELSE s[key] = Trim(SubSeq(t, HeaderEnd(t, F[key], key),
                                    C22_End(t, F, key)))
    /\ \A key \in SectionKeys :
          \A k \in C22_Occurrences(t, key) \ {F[key]} :
             \E in \in SectionKeys :
                /\ F[in] # 0
                /\ HeaderEnd(t, F[in], in) <= k
                /\ HeaderEnd(t, k, key) - 1 <= C22_End(t, F, in)

(***************************************************************************)
(* C22: for each keyword only the first occurrence of its heading starts a *)
(* section: the field is the trimmed text after the first occurrence, up   *)
(* to the first heading of another keyword after it, and a later           *)
(* occurrence of a heading lies inside the text of a found section.        *)
(***************************************************************************)
C22_FirstOccurrenceOnly ==
    IsScript(editableScript)
      => \A t \in {Normalize(markdown)} :
            \A F \in {C22_First(t)} : C22_FirstOnly(editableScript, t, F)

(* a heading is restated, and its first occurrence has content             *)
C22_Witness ==
    /\ IsScript(editableScript)
    /\ \E key \in SectionKeys :
          /\ Cardinality(C22_Occurrences(Normalize(markdown), key)) >= 2
          /\ editableScript[key] # <<>>
(* the text of the line from position from on, trimmed; NoMatch when the   *)
(* line has no character there                                             *)
C23_RestOfLine(t, from) ==
    IF from <= Len(t) /\ t[from] \notin LineTerminators
    THEN [text |-> Trim(SubSeq(t, from, LineEnd(t, from) - 1))]
    ELSE NoMatch

(* the line at k is a top-level heading line: "#", white space of the      *)
(* line, text                                                              *)
C23_TitleLineAt(t, k) ==
    IF AtLineStart(t, k) /\ t[k] = "#" /\ k + 1 <= Len(t)
         /\ t[k + 1] \in WhiteSpace \ LineTerminators
    THEN C23_RestOfLine(t, k + 2)
    ELSE NoMatch

(* the text of the first top-level heading line, or the default            *)
C23_Title(t) ==
    LET S == {k \in 1..Len(t) : C23_TitleLineAt(t, k) # NoMatch}
    IN IF S = {} THEN DefaultTitle ELSE C23_TitleLineAt(t, Min(S)).text

(* the line at k is a Style: line: optional marker, "Style:", optional     *)
(* marker, text of the line                                                *)
C23_StyleLineAt(t, k) ==
    LET w == IF MarkerAt(t, k) THEN k + 2 ELSE k
        p == w + 6
    IN IF AtLineStart(t, k) /\ WordAt(t, w, <<"S", "t", "y", "l", "e", ":">>)
       THEN IF MarkerAt(t, p) /\ C23_RestOfLine(t, p + 2) # NoMatch
            THEN C23_RestOfLine(t, p + 2)
            ELSE C23_RestOfLine(t, p)
       ELSE NoMatch

(* the text of the first Style: line, or the default                       *)
C23_Style(t) ==
    LET S == {k \in 1..Len(t) : C23_StyleLineAt(t, k) # NoMatch}
    IN IF S = {} THEN DefaultStyle ELSE C23_StyleLineAt(t, Min(S)).text

(***************************************************************************)
(* C23: in every record, title is the text of the first top-level heading  *)
(* line ("#", white space, text on one line) or 'Untitled Video',          *)
(* visualStyle is the text of the first Style: line or 'Cinematic, high    *)
(* contrast', and a section whose heading does not occur is empty; in      *)
(* particular the title is never taken from a "##" line.                   *)
(***************************************************************************)
C23_TitleStyleAndDefaults ==
    IsScript(editableScript)
      => \A t \in {Normalize(markdown)} :
            /\ editableScript.title = C23_Title(t)
            /\ editableScript.visualStyle = C23_Style(t)
            /\ \A key \in SectionKeys :
                  (\A k \in 1..Len(t) : HeaderEnd(t, k, key) = 0)
                    => editableScript[key] = <<>>
(* the spellings of the keyword of a section                               *)
C24_Spellings(key) ==
    CASE key = "hook" -> {<<"H", "o", "o", "k">>}
      [] key = "body" -> {<<"B", "o", "d", "y">>}
      [] key = "cta" -> {<<"C", "T", "A">>,
                         <<"C", "a", "l", "l", " ", "t", "o", " ",
                           "A", "c", "t", "i", "o", "n">>}

(* a line starts at k with "##"                                            *)
C24_HeadingLineAt(t, k) ==
    AtLineStart(t, k) /\ k + 1 <= Len(t) /\ t[k] = "#" /\ t[k + 1] = "#"

(* where the text of the heading line at k starts: after "##" and the      *)
(* blanks of the line                                                      *)
C24_TextStart(t, k) ==
    Min({j \in (k + 2)..(Len(t) + 1) : j = Len(t) + 1 \/ t[j] \notin {" ", "\t"}})

(* the text of the heading line at k begins with the keyword of key        *)
C24_BeginsWith(t, k, key) ==
    /\ C24_HeadingLineAt(t, k)
    /\ \E w \in C24_Spellings(key) : WordAt(t, C24_TextStart(t, k), w)

(* the heading line at k has a text, which begins with no keyword          *)
C24_OtherText(t, k) ==
    /\ C24_HeadingLineAt(t, k)
    /\ C24_TextStart(t, k) <= Len(t)
    /\ t[C24_TextStart(t, k)] \notin LineTerminators
    /\ \A key \in SectionKeys : ~C24_BeginsWith(t, k, key)

(* the 0-based position where the section of the heading at k ends: the    *)
(* first heading of a keyword, when it comes after k, or the end of t      *)
C24_SectionEnd(t, k) ==
    Min({x - 1 : x \in {y \in (k + 1)..Len(t) :
                          \E o \in SectionKeys :
                             /\ HeaderEnd(t, y, o) # 0
                             /\ \A z \in 1..(y - 1) : HeaderEnd(t, z, o) = 0}}
        \cup {Len(t)})

C24_PrefixMatch(s, t) ==
    \A k \in {x \in 1..Len(t) : C24_HeadingLineAt(t, x)} :
       /\ \A key \in SectionKeys :
             C24_BeginsWith(t, k, key)
               => /\ IsScript(s)
                  /\ (\A z \in 1..(k - 1) : HeaderEnd(t, z, key) = 0)
                       => s[key] = Trim(SubSeq(t, LineEnd(t, k),
                                               C24_SectionEnd(t, k)))
       /\ C24_OtherText(t, k)
             => \A key \in SectionKeys : MatchHeader(t, key).index # k - 1

(***************************************************************************)
(* C24: a "##" line whose text begins with a section keyword, however the  *)
(* text goes on, is that section's heading: a record is returned and, when *)
(* it is the first heading of the keyword, the section's content starts    *)
(* after the end of the line; a "##" line whose text begins with something *)
(* else (the keyword may come later in the line) is not a heading.         *)
(***************************************************************************)
C24_KeywordPrefixIsHeading ==
    \A t \in {Normalize(markdown)} : C24_PrefixMatch(editableScript, t)

(* '## The Hook' is followed by '## Hooks and Loops' and its content       *)
C24_Witness ==
    /\ markdown = TheHookLine \o HooksAndLoopsLine \o <<"x">>
    /\ IsScript(editableScript)
    /\ editableScript.hook = <<"x">>
(* the headings found in p are found at the same positions in q            *)
C28_SamePositions(p, q) ==
    \A key \in SectionKeys :
       \A h \in {MatchHeader(p, key)} :
          h # NoMatch => MatchHeader(q, key).index = h.index

(* a step that appends text to a markdown that parses; the script held     *)
(* before and after the step is parseScript of the markdown (the preview   *)
(* is not edited)                                                          *)
C28_AppendStep ==
    (/\ ~isEdited /\ ~isEdited'
     /\ IsScript(editableScript)
     /\ Len(markdown') > Len(markdown)
     /\ SubSeq(markdown', 1, Len(markdown)) = markdown)
      => /\ IsScript(editableScript')
         /\ \A p \in {Normalize(markdown)} :
               \A q \in {Normalize(markdown')} : C28_SamePositions(p, q)

(***************************************************************************)
(* C28: when text is appended to a text that parses to a record, the       *)
(* longer text parses to a record too, and every section heading found in  *)
(* the shorter text is found at the same position in the longer one.       *)
(***************************************************************************)
C28_PresenceIsMonotone == [][C28_AppendStep]_vars

(* text was appended to '## Hook' and the heading is still found at 0      *)
C28_Witness ==
    /\ chunks >= 2
    /\ Len(markdown) > Len(HookLine)
    /\ SubSeq(markdown, 1, Len(HookLine)) = HookLine
    /\ IsScript(editableScript)
    /\ MatchHeader(Normalize(markdown), "hook").index = 0
(* a step keeps the script held in line with the markdown until an edit,   *)
(* keeps an edited script whatever the markdown becomes, and marks nothing *)
(* as edited while no script is held                                       *)
C27_Step ==
    /\ ~isEdited' => editableScript' = parseScript(markdown')
    /\ (isEdited /\ isEdited' /\ markdown' # markdown)
         => editableScript' = editableScript
    /\ ~IsScript(editableScript) => isEdited' = isEdited

(***************************************************************************)
(* C27: while the script is not edited, the script held is parseScript of  *)
(* the current markdown (after Reset too); once a field is edited, chunks  *)
(* and new replies leave the held script alone until Reset; while no       *)
(* script is held, nothing marks the script as edited.                     *)
(***************************************************************************)
C27_HeldScriptFollowsUntilEdited == [][C27_Step]_vars

(* an edited script is held while the markdown has moved on to a reply     *)
(* that does not parse                                                     *)
C27_Witness ==
    /\ isEdited
    /\ IsScript(editableScript)
    /\ markdown # <<>>
    /\ parseScript(markdown) = NoScript
(* the step is an upload of an image, in the chat or in the preview        *)
C29_Upload ==
    \/ selectedMedia' # selectedMedia
    \/ lastUserImageAttachment(messages').attachment
         # lastUserImageAttachment(messages).attachment
    \/ \E file \in ImageFiles : HandleRefImageUpload(file)

(* generation gets the reference image only if it is enabled and exists,   *)
(* and a change of App's state that is no upload leaves the user's choice  *)
(* alone                                                                   *)
C29_Step ==
    /\ HandleGenerate
         => imageToUse' = IF useRefImage /\ refImageData # NoRefImage
                          THEN refImageData ELSE Undefined
    /\ (chatVars' # chatVars /\ ~C29_Upload)
         => UNCHANGED <<useRefImage, refImageData>>

(* C29: the reference image is passed to generation only if enabled and    *)
(* held, and typing, chunks and other changes of App's state that upload   *)
(* no image neither re-enable nor restore it                               *)
C29_RefImageChoiceIsStable == [][C29_Step]_vars
(* C25: with collaborators that settle and a job that reports done, every  *)
(* generation request leaves the busy statuses: whenever the status is     *)
(* 'checking-auth' or 'generating', it is 'idle', 'completed' or 'error'   *)
(* later on                                                                *)
C25_BusyEventuallyEnds ==
    (generationStatus \in {"checking-auth", "generating"})
      ~> (generationStatus \in {"idle", "completed", "error"})
(* generateVeoVideo of call i has operation op in hand after this step     *)
C26_Receives(i, op) == SubmitVideoResolves(i, op) \/ PollResolves(i, op)

(* what the step does with the operation it receives                       *)
C26_Step ==
    \A i \in CallIds, op \in Operations :
       C26_Receives(i, op)
         => /\ calls'[i].pc = "sleep" <=> ~op.done
            /\ (generationStatus' = "completed" /\ videoUrl' = VeoUrl(i))
                 <=> (op.done /\ op.error = NoError /\ op.uri)
            /\ (op.done /\ op.error # NoError)
                 => /\ generationStatus' = "error"
                    /\ calls'[i].result = NoResult
            /\ (op.done /\ op.error = NoError /\ ~op.uri)
                 => /\ generationStatus' = "error"
                    /\ errorMsg' = <<FailurePrefix("video"), "No video URI returned">>

(***************************************************************************)
(* C26: generateVeoVideo polls again exactly when the operation it has in  *)
(* hand is not done; the request completes with the URL exactly when the   *)
(* operation is done, carries no error and holds a URI; a done operation   *)
(* with an error fails, with or without a URI, and a done operation with   *)
(* neither fails with 'No video URI returned'.                             *)
(***************************************************************************)
C26_DoneOperationEndsPolling == [][C26_Step]_vars

(* a request failed on a done operation without a URI                      *)
C26_Witness ==
    /\ generationStatus = "error"
    /\ errorMsg = <<FailurePrefix("video"), "No video URI returned">>
    /\ \E i \in CallIds :
          calls[i].kind = "video" /\ calls[i].err = "No video URI returned"
====
